---------------------------- MODULE Spec2Model ----------------------------
(***************************************************************************)
(* Model of tubearchivist's Elasticsearch access layer                     *)
(*   home/src/es/connect.py : ElasticWrap (one HTTP call per operation)    *)
(*                            IndexPaginate (point-in-time + search_after  *)
(*                            scan of a whole index)                       *)
(* A python mapping is a record holding the set of the keys it has (keys)  *)
(* and one field per key; the field of an absent key holds a fixed filler. *)
(***************************************************************************)
EXTENDS Integers, Sequences, FiniteSets, TLC

VARIABLES
    index,   \* number of documents the store serves for the scanned index and
             \* query (0: an empty index, or a query without matches)
    pits,    \* point-in-time handles open at the store
    issued,  \* number of handles the store has issued
    heap,    \* the payload mappings: the caller's, and one per scanner for
             \* the mapping validate_data creates when it got none
    scan,    \* the IndexPaginate instances, with the frame of the running
             \* get_results and the record of what it has done
    ew,      \* an ElasticWrap instance called directly
    mig,     \* the user-settings migration of ta_startup: Redis, the user
             \* configuration in the document store, and where the run stands
    sched    \* the schedule-store migration of ta_startup: the stored
             \* configuration, the tasks created, and where the run stands

vars == <<index, pits, issued, heap, scan, ew, mig, sched>>

---------------------------------------------------------------------------
(* Bounds of the model                                                     *)

\* largest number of documents the point in time of the index serves
MaxDocs == 3
\* largest explicit page size a caller passes as the size kwarg
MaxSize == 2
\* number of get_results invocations made on one scanner
MaxScans == 2
\* number of operations called on one ElasticWrap instance
MaxCalls == 3

(* Program constants                                                       *)

DEFAULT_SIZE == 500

Scanners == {"a", "b"}

Min(x, y) == IF x < y THEN x ELSE y

Last(s) == s[Len(s)]

---------------------------------------------------------------------------
(* The query payload: the mapping self.data                                *)

NoPit == [id |-> 0, keep_alive |-> ""]

EmptyData ==
    [keys |-> {}, query |-> "", sort |-> "", size |-> 0,
     pit |-> NoPit, search_after |-> <<>>]

\* dict.update({k: v}) / d[k] = v, one operator per key of the payload
SetQuery(d, v) == [d EXCEPT !.keys = @ \cup {"query"}, !.query = v]
SetSort(d, v) == [d EXCEPT !.keys = @ \cup {"sort"}, !.sort = v]
SetSize(d, v) == [d EXCEPT !.keys = @ \cup {"size"}, !.size = v]
SetPit(d, v) == [d EXCEPT !.keys = @ \cup {"pit"}, !.pit = v]
SetSearchAfter(d, v) ==
    [d EXCEPT !.keys = @ \cup {"search_after"}, !.search_after = v]

\* the payloads a caller hands to IndexPaginate: any subset of a query
\* clause and a sort clause of its own (an empty mapping included)
CallerData ==
    { [EmptyData EXCEPT !.keys = K,
                        !.query = IF "query" \in K THEN "term" ELSE "",
                        !.sort = IF "sort" \in K THEN "published_asc" ELSE ""] :
      K \in SUBSET {"query", "sort"} }

---------------------------------------------------------------------------
(* The document store, as the scanner sees it through the HTTP API         *)

\* a raw hit: the envelope the store returns for document d
Hit(d) == [id |-> d, source |-> [doc |-> d], sort |-> <<d>>]

RECURSIVE Descending(_)
Descending(n) == IF n = 0 THEN <<>> ELSE <<n>> \o Descending(n - 1)

RECURSIVE Ascending(_)
Ascending(n) == IF n = 0 THEN <<>> ELSE Ascending(n - 1) \o <<n>>

\* the documents of an n-document index in the order of the sort clause
StoreOrder(sort, n) ==
    IF sort = "published_asc" THEN Ascending(n) ELSE Descending(n)

\* document d comes strictly after the cursor in the order of the sort
IsAfter(sort, d, cursor) ==
    IF sort = "published_asc" THEN d > cursor[1] ELSE d < cursor[1]

\* the hits the store returns for one search request
StoreSearch(d, n) ==
    LET ord == StoreOrder(d.sort, n)
        rest == IF "search_after" \in d.keys
                THEN SelectSeq(ord, LAMBDA x : IsAfter(d.sort, x, d.search_after))
                ELSE ord
        page == SubSeq(rest, 1, Min(d.size, Len(rest)))
    IN  [i \in 1..Len(page) |-> Hit(page[i])]

NoBody == [keys |-> {}, id |-> 0, hits |-> <<>>]

\* what one HTTP call can end with: no response at all (connection refused,
\* timeout), or a status code and a JSON body
TransportFailure == [transport |-> TRUE, status |-> 0, body |-> NoBody]
Response(status, body) == [transport |-> FALSE, status |-> status, body |-> body]
ErrorBody == [NoBody EXCEPT !.keys = {"error"}]
PitBody(id) == [NoBody EXCEPT !.keys = {"id"}, !.id = id]
HitsBody(hits) == [NoBody EXCEPT !.keys = {"hits"}, !.hits = hits]
ClosedBody == [NoBody EXCEPT !.keys = {"succeeded"}]

\* POST {index}/_pit?keep_alive=10m
PitOpenReplies ==
    {TransportFailure, Response(200, PitBody(issued + 1)), Response(404, ErrorBody)}

\* GET _search with the payload d
SearchReplies(d) ==
    {TransportFailure,
     IF d.pit.id \in pits
     THEN Response(200, HitsBody(StoreSearch(d, index)))
     ELSE Response(404, ErrorBody),
     Response(503, ErrorBody)}

\* DELETE _pit with body {id}
PitCloseReplies(id) ==
    {TransportFailure,
     IF id \in pits THEN Response(200, ClosedBody) ELSE Response(404, ErrorBody)}

---------------------------------------------------------------------------
(* ElasticWrap: the result of one operation, given how the HTTP call ended *)

NoReturn == [body |-> NoBody, status |-> 0]

Raise(exc) == [raised |-> exc, ret |-> NoReturn]
Return(body, status) == [raised |-> "", ret |-> [body |-> body, status |-> status]]

\* requests.Response.ok
Ok(status) == status < 400

ElasticWrap_get(resp) ==
    IF resp.transport THEN Raise("ConnectionError")
    ELSE Return(resp.body, resp.status)

ElasticWrap_post(resp) ==
    IF resp.transport THEN Raise("ConnectionError")
    ELSE Return(resp.body, resp.status)

\* put without its status check: a failed write goes unnoticed
ElasticWrap_putTolerant(resp) ==
    IF resp.transport THEN Raise("ConnectionError")
    ELSE Return(resp.body, resp.status)

ElasticWrap_put(resp) ==
    IF resp.transport THEN Raise("ConnectionError")
    ELSE IF ~Ok(resp.status) THEN Raise("ValueError")
    ELSE Return(resp.body, resp.status)

\* delete with the status check of put
ElasticWrap_deleteStrict(resp) ==
    IF resp.transport THEN Raise("ConnectionError")
    ELSE IF ~Ok(resp.status) THEN Raise("ValueError")
    ELSE Return(resp.body, resp.status)

ElasticWrap_delete(resp) ==
    IF resp.transport THEN Raise("ConnectionError")
    ELSE Return(resp.body, resp.status)

---------------------------------------------------------------------------
(* IndexPaginate                                                           *)

Slots == {"caller"} \cup Scanners

NoKwargs == [keys |-> {}, size |-> 0, total |-> 0]

\* the keyword arguments a caller passes for an index serving n documents
KwargsChoices(n) ==
    { k \in [keys : SUBSET {"size", "keep_source", "callback", "task", "total"},
              size : 0..MaxSize, total : {0, 1, n}] :
          /\ "size" \notin k.keys => k.size = 0
          /\ "total" \notin k.keys => k.total = 0
          /\ "total" \in k.keys => "task" \in k.keys }

\* kwargs.get(key), for the keys whose value is only tested for truth
Truthy(kwargs, key) == key \in kwargs.keys

\* self.kwargs.get("size", self.DEFAULT_SIZE): a size of 0 is taken as it is
PageSizeOnlyIfAbsent(kwargs) ==
    IF "size" \in kwargs.keys THEN kwargs.size ELSE DEFAULT_SIZE

\* self.kwargs.get("size") or self.DEFAULT_SIZE
PageSize(kwargs) ==
    IF "size" \in kwargs.keys /\ kwargs.size # 0 THEN kwargs.size ELSE DEFAULT_SIZE

NoScanner ==
    [made |-> FALSE, index_name |-> "", data |-> "False", pit_id |-> 0,
     kwargs |-> NoKwargs, pc |-> "none", exc |-> "",
     all_results |-> <<>>, counter |-> 0, all_hits |-> <<>>,
     calls |-> <<>>, callbacks |-> <<>>, notes |-> <<>>,
     start |-> EmptyData, scans |-> 0]

\* IndexPaginate(index_name, data, **kwargs)
IndexPaginate(index_name, data, kwargs) ==
    [NoScanner EXCEPT !.made = TRUE, !.index_name = index_name, !.data = data,
                      !.kwargs = kwargs, !.pc = "idle"]

\* the slot of the heap self.data refers to
SlotOf(s) == IF scan[s].data = "caller" THEN "caller" ELSE s

\* the mapping self.data refers to (False has no mapping)
Data(s) == IF scan[s].data = "False" THEN EmptyData ELSE heap[SlotOf(s)]

\* one entry of the record of the store calls of a get_results invocation
\* (hits: the page a search call returned;
\*  done: the number of hits run_loop had accumulated when the call was issued)
Call(op, pit, d, hits, outcome, done) ==
    [op |-> op, pit |-> pit, data |-> d, hits |-> hits, outcome |-> outcome,
     done |-> done]

\* get_results without its clean_pit call
StepAfterNoClean(step) ==
    CASE step = "call" -> "get_pit"
      [] step = "get_pit" -> "validate_data"
      [] step = "validate_data" -> "search"
      [] step = "run_loop" -> "returned"
      [] step = "clean_pit" -> "returned"

\* get_results running the loop before it opens the point in time
StepAfterLoopFirst(step) ==
    CASE step = "call" -> "search"
      [] step = "run_loop" -> "get_pit"
      [] step = "get_pit" -> "validate_data"
      [] step = "validate_data" -> "clean_pit"
      [] step = "clean_pit" -> "returned"

\* get_results: the statement that follows each of its statements
StepAfter(step) ==
    CASE step = "call" -> "get_pit"
      [] step = "get_pit" -> "validate_data"
      [] step = "validate_data" -> "search"
      [] step = "run_loop" -> "clean_pit"
      [] step = "clean_pit" -> "returned"

\* run_loop ending on a page of a single hit as on an empty one
LoopEndsOnShortPage(all_hits) == Len(all_hits) <= 1

\* run_loop: the loop ends on this page (if not all_hits: break)
LoopEnds(all_hits) == all_hits = <<>>

Outcome(res) == IF res.raised # "" THEN res.raised ELSE "response"

\* an exception leaves get_results
Raised(s, exc, call) ==
    scan' = [scan EXCEPT ![s].pc = "raised", ![s].exc = exc,
                         ![s].calls = Append(@, call)]

\* validate_data setting the default sort whether or not the payload has one
validate_dataOverwriting(d, kwargs, pit_id) ==
    LET d1 == IF "query" \notin d.keys THEN SetQuery(d, "match_all") ELSE d
        d2 == SetSort(d1, "_doc_desc")
        d3 == SetSize(d2, PageSize(kwargs))
    IN  SetPit(d3, [id |-> pit_id, keep_alive |-> "10m"])

\* validate_data on the mapping d
\* validate_data starting every scan without a cursor
validate_dataResetCursor(d, kwargs, pit_id) ==
    LET d1 == IF "query" \notin d.keys THEN SetQuery(d, "match_all") ELSE d
        d2 == IF "sort" \notin d1.keys THEN SetSort(d1, "_doc_desc") ELSE d1
        d3 == SetSize(d2, PageSize(kwargs))
        d4 == SetPit(d3, [id |-> pit_id, keep_alive |-> "10m"])
    IN  [d4 EXCEPT !.keys = @ \ {"search_after"}, !.search_after = <<>>]

\* validate_data sending the handle opened last by any scanner
validate_dataLatestPit(d, kwargs, pit_id) ==
    LET d1 == IF "query" \notin d.keys THEN SetQuery(d, "match_all") ELSE d
        d2 == IF "sort" \notin d1.keys THEN SetSort(d1, "_doc_desc") ELSE d1
        d3 == SetSize(d2, PageSize(kwargs))
    IN  SetPit(d3, [id |-> issued, keep_alive |-> "10m"])

\* validate_data: the defaults, the page size and the handle put in the payload
validate_data(d, kwargs, pit_id) ==
    LET d1 == IF "query" \notin d.keys THEN SetQuery(d, "match_all") ELSE d
        d2 == IF "sort" \notin d1.keys THEN SetSort(d1, "_doc_desc") ELSE d1
        d3 == SetSize(d2, PageSize(kwargs))
    IN  SetPit(d3, [id |-> pit_id, keep_alive |-> "10m"])

\* run_loop appending the source document whatever keep_source says
ItemSourceOnly(kwargs, hit) == hit.source

\* the item run_loop appends for one raw hit
Item(kwargs, hit) == IF Truthy(kwargs, "keep_source") THEN hit ELSE hit.source

\* run_loop appending the sort values of every hit of the page to the cursor
NextCursorWholePage(all_hits) == [i \in 1..Len(all_hits) |-> all_hits[i].sort[1]]

\* run_loop taking the cursor from the first hit of the page
NextCursorFirst(all_hits) == all_hits[1].sort

\* the cursor run_loop stores after a page
NextCursor(all_hits) == Last(all_hits).sort

\* the callback handed the source documents instead of the raw hits
CallbackArgsSources(all_hits, index_name) ==
    [hits |-> [i \in 1..Len(all_hits) |-> all_hits[i].source],
     index_name |-> index_name]

\* the arguments of self.kwargs.get("callback")(all_hits, self.index_name)
CallbackArgs(all_hits, index_name) ==
    [hits |-> all_hits, index_name |-> index_name]

\* run_loop reporting the hits of the page instead of the hits so far
ProcessedPage(all_results, all_hits) == Len(all_hits)

\* the count run_loop hands to _notify: len(all_results)
Processed(all_results, all_hits) == Len(all_results)

\* what _notify sends to task.send_progress for a total that is not 0: the
\* counts of the message line and progress = processed / total, a fraction
Notification(processed, total) ==
    [message |-> [processed |-> processed, total |-> total],
     progress |-> [num |-> processed, den |-> total]]

\* get_results is called: the frame of the call starts empty
GetResults(s) ==
    /\ scan[s].made
    /\ scan[s].pc \in {"idle", "returned", "raised"}
    /\ scan[s].scans < MaxScans
    /\ scan' = [scan EXCEPT ![s].pc = StepAfter("call"), ![s].exc = "",
                            ![s].all_results = <<>>, ![s].counter = 0,
                            ![s].all_hits = <<>>, ![s].calls = <<>>,
                            ![s].callbacks = <<>>, ![s].notes = <<>>,
                            ![s].start = Data(s),
                            ![s].scans = @ + 1]
    /\ UNCHANGED <<index, pits, issued, heap, ew, mig, sched>>

GetPit(s) ==
    /\ scan[s].pc = "get_pit"
    /\ \E r \in PitOpenReplies :
         LET res == ElasticWrap_post(r)
             call == Call("pit_open", 0, EmptyData, <<>>, Outcome(res),
                          Len(scan[s].all_results))
         IN  IF res.raised # ""
             THEN /\ Raised(s, res.raised, call)
                  /\ UNCHANGED <<pits, issued>>
             ELSE IF "id" \notin res.ret.body.keys
             THEN /\ Raised(s, "KeyError", call)
                  /\ UNCHANGED <<pits, issued>>
             ELSE /\ scan' = [scan EXCEPT ![s].pit_id = res.ret.body.id,
                                          ![s].pc = StepAfter("get_pit"),
                                          ![s].calls =
                                              Append(@, [call EXCEPT !.pit = res.ret.body.id])]
                  /\ pits' = pits \cup {res.ret.body.id}
                  /\ issued' = issued + 1
    /\ UNCHANGED <<index, heap, ew, mig, sched>>

ValidateData(s) ==
    /\ scan[s].pc = "validate_data"
    /\ IF scan[s].data = "False" \/ Data(s).keys = {}
       THEN /\ heap' = [heap EXCEPT ![s] =
                           validate_data(EmptyData, scan[s].kwargs, scan[s].pit_id)]
            /\ scan' = [scan EXCEPT ![s].data = "own",
                                    ![s].pc = StepAfter("validate_data")]
       ELSE /\ heap' = [heap EXCEPT ![SlotOf(s)] =
                           validate_data(@, scan[s].kwargs, scan[s].pit_id)]
            /\ scan' = [scan EXCEPT ![s].pc = StepAfter("validate_data")]
    /\ UNCHANGED <<index, pits, issued, ew, mig, sched>>

Search(s) ==
    /\ scan[s].pc = "search"
    /\ \E r \in SearchReplies(Data(s)) :
         LET res == ElasticWrap_get(r)
             call == Call("search", Data(s).pit.id, Data(s), <<>>, Outcome(res),
                          Len(scan[s].all_results))
         IN  IF res.raised # ""
             THEN Raised(s, res.raised, call)
             ELSE IF "hits" \notin res.ret.body.keys
             THEN Raised(s, "KeyError", call)
             ELSE scan' = [scan EXCEPT
                     ![s].all_hits = res.ret.body.hits,
                     ![s].pc = IF LoopEnds(res.ret.body.hits)
                               THEN StepAfter("run_loop") ELSE "append",
                     ![s].calls = Append(@, [call EXCEPT !.hits = res.ret.body.hits])]
    /\ UNCHANGED <<index, pits, issued, heap, ew, mig, sched>>

AppendHits(s) ==
    /\ scan[s].pc = "append"
    /\ scan' = [scan EXCEPT
            ![s].all_results =
                @ \o [i \in 1..Len(scan[s].all_hits) |->
                        Item(scan[s].kwargs, scan[s].all_hits[i])],
            ![s].pc = "callback"]
    /\ UNCHANGED <<index, pits, issued, heap, ew, mig, sched>>

Callback(s) ==
    /\ scan[s].pc = "callback"
    /\ IF Truthy(scan[s].kwargs, "callback")
       THEN \E ok \in BOOLEAN :
              scan' = [scan EXCEPT
                  ![s].callbacks =
                      Append(@, [args |-> CallbackArgs(scan[s].all_hits,
                                                       scan[s].index_name),
                                 done |-> Len(scan[s].all_results)]),
                  ![s].pc = IF ok THEN "notify" ELSE "raised",
                  ![s].exc = IF ok THEN "" ELSE "CallbackError"]
       ELSE scan' = [scan EXCEPT ![s].pc = "notify"]
    /\ UNCHANGED <<index, pits, issued, heap, ew, mig, sched>>

Notify(s) ==
    /\ scan[s].pc = "notify"
    /\ IF Truthy(scan[s].kwargs, "task")
       THEN IF "total" \notin scan[s].kwargs.keys
            THEN scan' = [scan EXCEPT ![s].pc = "raised", ![s].exc = "TypeError"]
            ELSE IF scan[s].kwargs.total = 0
            THEN scan' = [scan EXCEPT ![s].pc = "raised",
                                      ![s].exc = "ZeroDivisionError"]
            ELSE scan' = [scan EXCEPT
                    ![s].notes =
                        Append(@, Notification(
                                      Processed(scan[s].all_results, scan[s].all_hits),
                                      scan[s].kwargs.total)),
                    ![s].pc = "advance"]
       ELSE scan' = [scan EXCEPT ![s].pc = "advance"]
    /\ UNCHANGED <<index, pits, issued, heap, ew, mig, sched>>

Advance(s) ==
    /\ scan[s].pc = "advance"
    /\ scan' = [scan EXCEPT ![s].counter = @ + 1, ![s].pc = "search"]
    /\ heap' = [heap EXCEPT ![SlotOf(s)] =
                   SetSearchAfter(@, NextCursor(scan[s].all_hits))]
    /\ UNCHANGED <<index, pits, issued, ew, mig, sched>>

CleanPit(s) ==
    /\ scan[s].pc = "clean_pit"
    /\ \E r \in PitCloseReplies(scan[s].pit_id) :
         LET res == ElasticWrap_delete(r)
             call == Call("pit_close", scan[s].pit_id, EmptyData, <<>>, Outcome(res),
                          Len(scan[s].all_results))
         IN  IF res.raised # ""
             THEN /\ Raised(s, res.raised, call)
                  /\ UNCHANGED pits
             ELSE /\ scan' = [scan EXCEPT ![s].pc = StepAfter("clean_pit"),
                                          ![s].calls = Append(@, call)]
                  /\ pits' = IF Ok(res.ret.status) THEN pits \ {scan[s].pit_id} ELSE pits
    /\ UNCHANGED <<index, issued, heap, ew, mig, sched>>

---------------------------------------------------------------------------
(* ElasticWrap instances called directly                                   *)

\* f"{self.ES_URL}/{path}", then one "/?refresh=true" per refresh
Url(path, refreshes) == [root |-> "ES_URL", path |-> path, refreshes |-> refreshes]

NoRequest == [verb |-> "", url |-> Url("", 0), body |-> FALSE, timeout |-> 0]

NoWrap ==
    [made |-> FALSE, url |-> Url("", 0), ops |-> 0, http |-> 0, op |-> "",
     request |-> NoRequest, reply |-> TransportFailure, result |-> Raise("")]

\* ElasticWrap(path)
ElasticWrap(path) == [NoWrap EXCEPT !.made = TRUE, !.url = Url(path, 0)]

Paths == {"ta_video/_doc/1", "ta_video/_bulk"}

AckBody == [NoBody EXCEPT !.keys = {"result"}]

\* how the store can answer a call issued directly on a wrapper
WrapReplies ==
    {TransportFailure}
    \cup {Response(st, IF Ok(st) THEN AckBody ELSE ErrorBody) :
            st \in {200, 201, 400, 404, 500}}

\* self.url after the refresh branch of put and delete
RefreshUrl(url, refresh) ==
    IF refresh THEN [url EXCEPT !.refreshes = @ + 1] ELSE url

\* the state of the wrapper after an operation that issued one request
Called(op, url, request, reply, result) ==
    [ew EXCEPT !.url = url, !.ops = @ + 1, !.http = @ + 1, !.op = op,
               !.request = request, !.reply = reply, !.result = result]

New(path) ==
    /\ ew' = ElasticWrap(path)
    /\ UNCHANGED <<index, pits, issued, heap, scan, mig, sched>>

Get(data) ==
    /\ ew.made /\ ew.ops < MaxCalls
    /\ \E r \in WrapReplies :
         ew' = Called("get", ew.url,
                      [verb |-> "GET", url |-> ew.url, body |-> data, timeout |-> 10],
                      r, ElasticWrap_get(r))
    /\ UNCHANGED <<index, pits, issued, heap, scan, mig, sched>>

Post(data, ndjson) ==
    /\ ew.made /\ ew.ops < MaxCalls
    /\ \E r \in WrapReplies :
         ew' = Called("post", ew.url,
                      [verb |-> "POST", url |-> ew.url, body |-> data, timeout |-> 0],
                      r, ElasticWrap_post(r))
    /\ UNCHANGED <<index, pits, issued, heap, scan, mig, sched>>

Put(refresh) ==
    /\ ew.made /\ ew.ops < MaxCalls
    /\ \E r \in WrapReplies :
         LET url == RefreshUrl(ew.url, refresh)
         IN  ew' = Called("put", url,
                          [verb |-> "PUT", url |-> url, body |-> TRUE, timeout |-> 0],
                          r, ElasticWrap_put(r))
    /\ UNCHANGED <<index, pits, issued, heap, scan, mig, sched>>

Delete(data, refresh) ==
    /\ ew.made /\ ew.ops < MaxCalls
    /\ \E r \in WrapReplies :
         LET url == RefreshUrl(ew.url, refresh)
         IN  ew' = Called("delete", url,
                          [verb |-> "DELETE", url |-> url, body |-> data, timeout |-> 0],
                          r, ElasticWrap_delete(r))
    /\ UNCHANGED <<index, pits, issued, heap, scan, mig, sched>>

---------------------------------------------------------------------------
(* ta_startup: _mig_move_users_to_es, the move of the user settings from   *)
(* Redis to the user configuration in the document store                   *)

\* largest number of user settings Redis holds when the migration starts
MaxKeys == 2

Users == {"1", "2"}

\* the settings in the order the loop body moves them: the Redis key is
\* "<user>:<key>", name is the name handed to UserConfig.set_value
Settings ==
    << [key |-> "color", name |-> "stylesheet"],
       [key |-> "sort_by", name |-> "sort_by"],
       [key |-> "page_size", name |-> "page_size"],
       [key |-> "sort_order", name |-> "sort_order"],
       [key |-> "grid_items", name |-> "grid_items"],
       [key |-> "hide_watched", name |-> "hide_watched"],
       [key |-> "show_ignored_only", name |-> "show_ignored_only"],
       [key |-> "show_subed_only", name |-> "show_subed_only"],
       [key |-> "view:channel", name |-> "view_style_channel"],
       [key |-> "view:playlist", name |-> "view_style_playlist"],
       [key |-> "view:home", name |-> "view_style_home"],
       [key |-> "view:downloads", name |-> "view_style_downloads"] >>

\* Redis without a user key
NoRedis == [u \in Users |-> [k \in DOMAIN Settings |-> "absent"]]

\* Redis holding the given <<user, setting, status>> entries; the status of
\* a message is "truthy" or "falsy"
RedisWith(entries) ==
    [u \in Users |-> [k \in DOMAIN Settings |->
        IF \E i \in DOMAIN entries : entries[i] = <<u, k, "truthy">> THEN "truthy"
        ELSE IF \E i \in DOMAIN entries : entries[i] = <<u, k, "falsy">> THEN "falsy"
        ELSE "absent"]]

\* what Redis may hold when the command starts
RedisChoices ==
    { RedisWith(e) :
        e \in UNION { [1..n -> Users \X (DOMAIN Settings) \X {"truthy", "falsy"}] :
                        n \in 0..MaxKeys } }

\* {i.split(":")[0] for i in redis.list_keys("[0-9]*:")}
ListUsers(redis) ==
    {u \in Users : \E k \in DOMAIN Settings : redis[u][k] # "absent"}

\* redis.get_message(key).get("status"), tested for truth
GetStatus(redis, user, k) == redis[user][k] = "truthy"

\* redis.del_message(key)
DelMessage(redis, user, k) == [redis EXCEPT ![user][k] = "absent"]

\* UserConfig(user).set_value(name, value)
SetValue(es, user, name) == es \cup {<<user, name>>}

NoMig ==
    [redis |-> NoRedis, es |-> {}, initial |-> NoRedis, pc |-> "off",
     todo |-> {}, user |-> "", key |-> 0, at |-> ""]

\* a block of the loop body that deletes the Redis key before it writes
MigStepAfterDeleteFirst(step) ==
    CASE step = "get_message" -> "del_message"
      [] step = "del_message" -> "set_value"
      [] step = "set_value" -> "next"

\* a block of the loop body: get_message, if truthy set_value, del_message
MigStepAfter(step) ==
    CASE step = "get_message" -> "set_value"
      [] step = "set_value" -> "del_message"
      [] step = "del_message" -> "next"

\* the next block of the loop body, or the next user after the last block
Proceed(m) ==
    IF m.key < Len(Settings)
    THEN [m EXCEPT !.key = @ + 1, !.pc = "get_message"]
    ELSE [m EXCEPT !.pc = "next_user"]

Goto(m, step) == IF step = "next" THEN Proceed(m) ELSE [m EXCEPT !.pc = step]

\* except Exception: print, sleep(60), raise CommandError
CommandError(m) == [m EXCEPT !.at = m.pc, !.pc = "failed"]

\* _mig_move_users_to_es is called: the users are listed
MoveUsersToEs ==
    /\ mig.pc = "idle"
    /\ LET users == ListUsers(mig.redis)
       IN  mig' = IF users = {}
                  THEN [mig EXCEPT !.pc = "done"]
                  ELSE [mig EXCEPT !.pc = "next_user", !.todo = users]
    /\ UNCHANGED <<index, pits, issued, heap, scan, ew, sched>>

\* for user in users: the set is iterated in no particular order
ForUser ==
    /\ mig.pc = "next_user"
    /\ IF mig.todo = {}
       THEN mig' = [mig EXCEPT !.pc = "done"]
       ELSE \E u \in mig.todo :
              mig' = [mig EXCEPT !.user = u, !.todo = @ \ {u}, !.key = 1,
                                 !.pc = "get_message"]
    /\ UNCHANGED <<index, pits, issued, heap, scan, ew, sched>>

\* value = redis.get_message(key).get("status"); if value:
ReadSetting ==
    /\ mig.pc = "get_message"
    /\ mig' = IF GetStatus(mig.redis, mig.user, mig.key)
              THEN Goto(mig, MigStepAfter("get_message"))
              ELSE Proceed(mig)
    /\ UNCHANGED <<index, pits, issued, heap, scan, ew, sched>>

\* new_conf.set_value(name, value): the value is stored, or the call raises
WriteSetting ==
    /\ mig.pc = "set_value"
    /\ \E ok \in BOOLEAN :
         mig' = IF ok
                THEN Goto([mig EXCEPT !.es = SetValue(@, mig.user,
                                                      Settings[mig.key].name)],
                          MigStepAfter("set_value"))
                ELSE CommandError(mig)
    /\ UNCHANGED <<index, pits, issued, heap, scan, ew, sched>>

\* redis.del_message(key): the key is deleted, or the call raises
DeleteSetting ==
    /\ mig.pc = "del_message"
    /\ \E ok \in BOOLEAN :
         mig' = IF ok
                THEN Goto([mig EXCEPT !.redis = DelMessage(@, mig.user, mig.key)],
                          MigStepAfter("del_message"))
                ELSE CommandError(mig)
    /\ UNCHANGED <<index, pits, issued, heap, scan, ew, sched>>

---------------------------------------------------------------------------
(* ta_startup: _mig_schedule_store, the move of the schedules from the     *)
(* stored configuration to periodic tasks                                  *)

\* largest number of truthy entries of config["scheduler"]
MaxSchedules == 2
\* number of times the command runs
MaxRuns == 2

\* the tasks created from an entry of config["scheduler"], in call order
ConfiguredTasks ==
    <<"update_subscribed", "download_pending", "check_reindex",
      "thumbnail_check", "run_backup">>

\* the entries of config["scheduler"] the migration reads
ScheduleKeys ==
    {ConfiguredTasks[i] : i \in DOMAIN ConfiguredTasks} \cup
    {"update_subscribed_notify", "download_pending_notify",
     "check_reindex_notify", "check_reindex_days", "run_backup_rotate"}

\* config without a "scheduler" entry
NoScheduler == [present |-> FALSE, truthy |-> {}, other |-> FALSE]

\* config["scheduler"]: truthy holds the keys with a truthy value, other
\* says that it has further entries (falsy ones)
SchedulerChoices ==
    {NoScheduler} \cup
    { [present |-> TRUE, truthy |-> t, other |-> o] :
        t \in {s \in SUBSET ScheduleKeys : Cardinality(s) <= MaxSchedules},
        o \in BOOLEAN }

\* not current_schedules: no entry, or an empty mapping
NoSchedules(c) == ~c.present \/ (c.truthy = {} /\ ~c.other)

\* the keys of the task_config the migration builds for a task
TaskConfig(name, c) ==
    CASE name = "update_subscribed" ->
           IF "update_subscribed_notify" \in c.truthy THEN {"notify"} ELSE {}
      [] name = "download_pending" ->
           IF "download_pending_notify" \in c.truthy THEN {"notify"} ELSE {}
      [] name = "check_reindex" ->
           (IF "check_reindex_notify" \in c.truthy THEN {"notify"} ELSE {}) \cup
           (IF "check_reindex_days" \in c.truthy THEN {"days"} ELSE {})
      [] name = "run_backup" ->
           IF "run_backup_rotate" \in c.truthy THEN {"rotate"} ELSE {}
      [] OTHER -> {}

\* the minute and hour _mig_version_check draws with randint
RandomCron == {"random_a", "random_b"}

\* _create_task can go through: no task of that name on another schedule
\* (get_or_create would create a second task of the same name)
CanCreate(tasks, name, cron) ==
    \A t \in tasks : t.name = name => t.cron = cron

\* _create_task: get_or_create of the schedule and of the periodic task
CreateTask(tasks, name, cron, config) ==
    tasks \cup {[name |-> name, cron |-> cron, config |-> config]}

NoSched ==
    [config |-> NoScheduler, initial |-> NoScheduler, tasks |-> {}, pc |-> "off",
     runs |-> 0, created |-> 0, migrated |-> FALSE, after |-> {}]

\* _mig_schedule_store storing the configuration before the version check
SchedStepAfterStoreFirst(step) ==
    CASE step = "call" -> "update_subscribed"
      [] step = "update_subscribed" -> "download_pending"
      [] step = "download_pending" -> "check_reindex"
      [] step = "check_reindex" -> "thumbnail_check"
      [] step = "thumbnail_check" -> "run_backup"
      [] step = "run_backup" -> "store"
      [] step = "store" -> "version_check"
      [] step = "version_check" -> "done"

\* _mig_schedule_store: the statement that follows each of its statements
SchedStepAfter(step) ==
    CASE step = "call" -> "update_subscribed"
      [] step = "update_subscribed" -> "download_pending"
      [] step = "download_pending" -> "check_reindex"
      [] step = "check_reindex" -> "thumbnail_check"
      [] step = "thumbnail_check" -> "run_backup"
      [] step = "run_backup" -> "version_check"
      [] step = "version_check" -> "store"
      [] step = "store" -> "done"

\* a step of the migration has finished
SchedGoto(sc, step) ==
    IF step = "done"
    THEN [sc EXCEPT !.pc = "done", !.migrated = TRUE, !.after = sc.tasks]
    ELSE [sc EXCEPT !.pc = step]

\* _mig_schedule_store is called: the stored configuration is read
ScheduleStore ==
    /\ sched.pc \in {"idle", "done", "failed", "nothing"}
    /\ sched.runs < MaxRuns
    /\ sched' = IF NoSchedules(sched.config)
                THEN [sched EXCEPT !.pc = "nothing", !.runs = @ + 1, !.created = 0]
                ELSE [sched EXCEPT !.pc = SchedStepAfter("call"), !.runs = @ + 1,
                                   !.created = 0]
    /\ UNCHANGED <<index, pits, issued, heap, scan, ew, mig>>

\* _mig_update_subscribed .. _mig_run_backup: the task is created when its
\* schedule is truthy; an exception of _create_task leaves the command
MigTask(name) ==
    /\ sched.pc = name
    /\ IF name \in sched.config.truthy
       THEN \E ok \in BOOLEAN :
              sched' = IF ok /\ CanCreate(sched.tasks, name, "configured")
                       THEN SchedGoto([sched EXCEPT
                                !.tasks = CreateTask(@, name, "configured",
                                                     TaskConfig(name, sched.config)),
                                !.created = @ + 1],
                              SchedStepAfter(name))
                       ELSE [sched EXCEPT !.pc = "failed"]
       ELSE sched' = SchedGoto(sched, SchedStepAfter(name))
    /\ UNCHANGED <<index, pits, issued, heap, scan, ew, mig>>

\* _mig_version_check: always creates, on a schedule drawn at random
VersionCheck ==
    /\ sched.pc = "version_check"
    /\ \E cron \in RandomCron, ok \in BOOLEAN :
         sched' = IF ok /\ CanCreate(sched.tasks, "version_check", cron)
                  THEN SchedGoto([sched EXCEPT
                           !.tasks = CreateTask(@, "version_check", cron, {}),
                           !.created = @ + 1],
                         SchedStepAfter("version_check"))
                  ELSE [sched EXCEPT !.pc = "failed"]
    /\ UNCHANGED <<index, pits, issued, heap, scan, ew, mig>>

\* del config["scheduler"]; RedisArchivist().set_message("config", config)
StoreConfig ==
    /\ sched.pc = "store"
    /\ \E ok \in BOOLEAN :
         sched' = IF ok
                  THEN SchedGoto([sched EXCEPT !.config = NoScheduler],
                                 SchedStepAfter("store"))
                  ELSE [sched EXCEPT !.pc = "failed"]
    /\ UNCHANGED <<index, pits, issued, heap, scan, ew, mig>>

InitWrap ==
    /\ index = 0
    /\ pits = {}
    /\ issued = 0
    /\ heap = [x \in Slots |-> EmptyData]
    /\ scan = [x \in Scanners |-> NoScanner]
    /\ ew \in {ElasticWrap(p) : p \in Paths}
    /\ mig = NoMig
    /\ sched = NoSched

NextWrap ==
    \/ \E p \in Paths : New(p)
    \/ \E data \in BOOLEAN : Get(data)
    \/ \E data \in BOOLEAN, ndjson \in BOOLEAN : Post(data, ndjson)
    \/ \E refresh \in BOOLEAN : Put(refresh)
    \/ \E data \in BOOLEAN, refresh \in BOOLEAN : Delete(data, refresh)

SpecWrap == InitWrap /\ [][NextWrap]_vars

Init ==
    /\ index \in 0..MaxDocs
    /\ pits = {}
    /\ issued = 0
    /\ \E ref \in {"False", "caller"} :
       \E d \in (IF ref = "caller" THEN CallerData ELSE {EmptyData}) :
       \E kw \in KwargsChoices(index) :
         /\ heap = [x \in Slots |-> IF x = "caller" THEN d ELSE EmptyData]
         /\ scan = [x \in Scanners |->
                      IF x = "a" THEN IndexPaginate("ta_video", ref, kw)
                      ELSE NoScanner]
    /\ ew = NoWrap
    /\ mig = NoMig
    /\ sched = NoSched

Next ==
    \E s \in Scanners :
        \/ GetResults(s)
        \/ GetPit(s)
        \/ ValidateData(s)
        \/ Search(s)
        \/ AppendHits(s)
        \/ Callback(s)
        \/ Notify(s)
        \/ Advance(s)
        \/ CleanPit(s)

Spec == Init /\ [][Next]_vars

\* a get_results call on scanner s is under way
Running(s) == scan[s].made /\ scan[s].pc \notin {"idle", "returned", "raised"}

\* the statements of a get_results call that is under way: the interpreter
\* runs the next one, and the store answers the call it makes
Step(s) ==
    \/ GetPit(s)
    \/ ValidateData(s)
    \/ Search(s)
    \/ AppendHits(s)
    \/ Callback(s)
    \/ Notify(s)
    \/ Advance(s)
    \/ CleanPit(s)

\* a call of get_results, once made, keeps running
SpecLive == Init /\ [][Next]_vars /\ \A s \in Scanners : WF_vars(Step(s))

\* two scanners constructed side by side, each given no payload or the
\* caller's mapping (both may be given the same one), and each run once
InitConc ==
    /\ index \in 0..MaxDocs
    /\ pits = {}
    /\ issued = 0
    /\ \E refa \in {"False", "caller"}, refb \in {"False", "caller"} :
       \E d \in (IF refa = "caller" THEN CallerData ELSE {EmptyData}) :
       \E kwa \in {k \in KwargsChoices(index) : k.keys \subseteq {"size"}} :
       \E kwb \in {NoKwargs} :
         /\ refb = "caller" => refa = "caller"
         /\ heap = [x \in Slots |-> IF x = "caller" THEN d ELSE EmptyData]
         /\ scan = [x \in Scanners |->
                      IF x = "a" THEN IndexPaginate("ta_video", refa, kwa)
                      ELSE IndexPaginate("ta_channel", refb, kwb)]
    /\ ew = NoWrap
    /\ mig = NoMig
    /\ sched = NoSched

\* the one get_results call made on scanner s
Start(s) == scan[s].pc = "idle" /\ GetResults(s)

NextConc == \E s \in Scanners : Start(s) \/ Step(s)

SpecConc == InitConc /\ [][NextConc]_vars

\* two scanners constructed with the same mapping of the caller, which may
\* be empty; get_results is called on them one call after the other
InitReuse ==
    /\ index \in 0..MaxDocs
    /\ pits = {}
    /\ issued = 0
    /\ \E d \in {c \in CallerData : "sort" \notin c.keys} :
       \E kwa \in {k \in KwargsChoices(index) : k.keys = {"size"} /\ k.size > 0} :
         /\ heap = [x \in Slots |-> IF x = "caller" THEN d ELSE EmptyData]
         /\ scan = [x \in Scanners |->
                      IF x = "a" THEN IndexPaginate("ta_video", "caller", kwa)
                      ELSE IndexPaginate("ta_video", "caller", NoKwargs)]
    /\ ew = NoWrap
    /\ mig = NoMig
    /\ sched = NoSched

\* get_results is called on scanner s while no other call is under way:
\* again and again on scanner a, once on scanner b
CallInTurn(s) ==
    /\ \A t \in Scanners : ~Running(t)
    /\ s = "b" => scan[s].pc = "idle"
    /\ GetResults(s)

NextReuse == \E s \in Scanners : CallInTurn(s) \/ Step(s)

SpecReuse == InitReuse /\ [][NextReuse]_vars

\* the command starts with some user settings in Redis and none migrated
InitUsers ==
    /\ index = 0
    /\ pits = {}
    /\ issued = 0
    /\ heap = [x \in Slots |-> EmptyData]
    /\ scan = [x \in Scanners |-> NoScanner]
    /\ ew = NoWrap
    /\ mig \in {[NoMig EXCEPT !.redis = r, !.initial = r, !.pc = "idle"] :
                  r \in RedisChoices}
    /\ sched = NoSched

NextUsers ==
    \/ MoveUsersToEs
    \/ ForUser
    \/ ReadSetting
    \/ WriteSetting
    \/ DeleteSetting

SpecUsers == InitUsers /\ [][NextUsers]_vars

\* the command starts with a stored configuration and no periodic task
InitSchedule ==
    /\ index = 0
    /\ pits = {}
    /\ issued = 0
    /\ heap = [x \in Slots |-> EmptyData]
    /\ scan = [x \in Scanners |-> NoScanner]
    /\ ew = NoWrap
    /\ mig = NoMig
    /\ sched \in {[NoSched EXCEPT !.config = c, !.initial = c, !.pc = "idle"] :
                    c \in SchedulerChoices}

NextSchedule ==
    \/ ScheduleStore
    \/ \E i \in DOMAIN ConfiguredTasks : MigTask(ConfiguredTasks[i])
    \/ VersionCheck
    \/ StoreConfig

SpecSchedule == InitSchedule /\ [][NextSchedule]_vars

---------------------------------------------------------------------------
(* Vocabulary of the properties                                            *)

RECURSIVE Concat(_)
\* the pages of a sequence of calls, concatenated in call order
Concat(calls) ==
    IF calls = <<>> THEN <<>>
    ELSE Concat(SubSeq(calls, 1, Len(calls) - 1)) \o Last(calls).hits

CallsOf(s, op) == SelectSeq(scan[s].calls, LAMBDA c : c.op = op)

\* the raw hits the store has returned to scanner s in this invocation
Fetched(s) == Concat(scan[s].calls)

\* the invocation started on a payload that holds no cursor
Fresh(s) == "search_after" \notin scan[s].start.keys

Ceil(n, p) == (n + p - 1) \div p

\* the page size in force: the size kwarg, 500 when it is absent or 0
PageOf(s) ==
    IF "size" \in scan[s].kwargs.keys /\ scan[s].kwargs.size > 0
    THEN scan[s].kwargs.size ELSE 500

\* get_results has ended, one way or the other
Ended(s) == scan[s].pc \in {"returned", "raised"}

\* the point-in-time open call of the invocation has succeeded
Opened(s) ==
    /\ scan[s].calls # <<>>
    /\ scan[s].calls[1].op = "pit_open"
    /\ scan[s].calls[1].outcome = "response"
    /\ scan[s].calls[1].pit # 0

\* the sort clause in force for the invocation
SortOf(s) == IF "sort" \in scan[s].start.keys THEN scan[s].start.sort ELSE "_doc_desc"

\* the item expected for document d
ExpectedItem(s, d) ==
    IF "keep_source" \in scan[s].kwargs.keys THEN Hit(d) ELSE [doc |-> d]

\* all_results holds every document of the index once, in store order
HoldsWholeIndex(s) ==
    /\ Len(scan[s].all_results) = index
    /\ \A i \in 1..Len(scan[s].all_results) :
         scan[s].all_results[i] = ExpectedItem(s, StoreOrder(SortOf(s), index)[i])
    /\ \A i \in 1..Len(scan[s].all_results) :
         scan[s].all_results[i] = ExpectedItem(s, Fetched(s)[i].id)
    /\ Len(Fetched(s)) = index

---------------------------------------------------------------------------
---------------------------------------------------------------------------
(* C2 as stated: a get_results over N >= 1 documents with page size P      *)
(* issues exactly ceil(N/P) search calls, one open call and one close call.*)
C2_CeilSearchCalls ==
    \A s \in Scanners :
        (scan[s].pc = "returned" /\ index >= 1) =>
            /\ Len(CallsOf(s, "search")) = Ceil(index, PageOf(s))
            /\ Len(CallsOf(s, "pit_open")) = 1
            /\ Len(CallsOf(s, "pit_close")) = 1

(* C2 amended: a get_results over N >= 1 documents that starts on a        *)
(* payload holding no search_after issues ceil(N/P) + 1 search calls: the  *)
(* first ceil(N/P) return min(P, N - (k-1)P) hits, the last returns none;  *)
(* and exactly one open call and one close call.                           *)
C2_CeilPlusOneSearchCalls ==
    \A s \in Scanners :
        (scan[s].pc = "returned" /\ index >= 1 /\ Fresh(s)) =>
            LET searches == CallsOf(s, "search")
                full == Ceil(index, PageOf(s))
            IN  /\ Len(searches) = full + 1
                /\ \A k \in 1..full :
                     Len(searches[k].hits) = Min(PageOf(s), index - (k - 1) * PageOf(s))
                /\ Last(searches).hits = <<>>
                /\ Len(CallsOf(s, "pit_open")) = 1
                /\ Len(CallsOf(s, "pit_close")) = 1

C2_Witness ==
    /\ scan["a"].pc = "returned" /\ Fresh("a")
    /\ index = 3 /\ PageOf("a") = 2
    /\ Len(CallsOf("a", "search")) = 3

---------------------------------------------------------------------------
(* C3: the close call is issued exactly once per get_results invocation,   *)
(* when the scan completes normally and when the callback raises.          *)
C3_CloseOnceAlsoWhenCallbackRaises ==
    \A s \in Scanners :
        (scan[s].pc = "returned" \/ (scan[s].pc = "raised" /\ scan[s].exc = "CallbackError"))
            => Len(CallsOf(s, "pit_close")) = 1

---------------------------------------------------------------------------
(* C4: once the open call has succeeded, every way get_results ends has    *)
(* issued a close call for the opened handle.                              *)
C4_EveryExitReleasesHandle ==
    \A s \in Scanners :
        (Ended(s) /\ Opened(s)) =>
            \E i \in 1..Len(scan[s].calls) :
                /\ scan[s].calls[i].op = "pit_close"
                /\ scan[s].calls[i].pit = scan[s].calls[1].pit

---------------------------------------------------------------------------
(* C5: a scan of an empty index accumulates nothing and invokes neither    *)
(* the callback nor the progress notification; when it returns it has      *)
(* issued one open call, then one search call that returned no hit, then   *)
(* one close call, and returns the empty sequence.                         *)
C5_EmptyIndex ==
    \A s \in Scanners :
        index = 0 =>
            /\ scan[s].all_results = <<>>
            /\ scan[s].callbacks = <<>>
            /\ scan[s].notes = <<>>
            /\ scan[s].pc = "returned" =>
                 /\ Len(scan[s].calls) = 3
                 /\ scan[s].calls[1].op = "pit_open"
                 /\ scan[s].calls[2].op = "search"
                 /\ scan[s].calls[2].hits = <<>>
                 /\ scan[s].calls[3].op = "pit_close"

C5_Witness ==
    /\ index = 0
    /\ scan["a"].pc = "returned"
    /\ {"callback", "task"} \subseteq scan["a"].kwargs.keys

---------------------------------------------------------------------------
(* C6: a put that gets a non-success status raises and returns no tuple,   *)
(* a put that gets a success status returns (body, status); either way the *)
(* operation has issued exactly one HTTP call, a PUT.                      *)
C6_PutFailsHard ==
    (ew.made /\ ew.op = "put" /\ ~ew.reply.transport) =>
        /\ ew.request.verb = "PUT"
        /\ ew.http = ew.ops
        /\ IF ew.reply.status \in {200, 201}
           THEN ew.result = [raised |-> "",
                             ret |-> [body |-> ew.reply.body, status |-> ew.reply.status]]
           ELSE ew.result = [raised |-> "ValueError", ret |-> NoReturn]

C6_Witness ==
    /\ ew.op = "put" /\ ew.reply.status = 500
    /\ ew.result.raised = "ValueError"
    /\ ew.ops = 2

---------------------------------------------------------------------------
(* C7: get, post and delete return the (body, status) of the one HTTP call *)
(* they issued for every status code the store reports; none of them       *)
(* raises on a non-success status.                                         *)
C7_GetPostDeleteTolerant ==
    (ew.made /\ ew.op \in {"get", "post", "delete"} /\ ~ew.reply.transport) =>
        /\ ew.http = ew.ops
        /\ ew.result.raised = ""
        /\ ew.result.ret = [body |-> ew.reply.body, status |-> ew.reply.status]

C7_Witness ==
    /\ ew.op = "delete" /\ ew.reply.status = 404
    /\ ew.result.raised = "" /\ ew.result.ret.status = 404

---------------------------------------------------------------------------
(* C8: every accumulated item is the raw hit the store returned at that    *)
(* position when keep_source is set, and its source document otherwise;    *)
(* the number of items is the number of hits of the processed pages in     *)
(* both modes.                                                             *)
C8_KeepSourceShapesItems ==
    \A s \in Scanners :
        /\ Len(scan[s].all_results) =
             Len(Fetched(s)) - (IF scan[s].pc = "append" THEN Len(scan[s].all_hits) ELSE 0)
        /\ \A i \in 1..Len(scan[s].all_results) :
             scan[s].all_results[i] =
                 IF "keep_source" \in scan[s].kwargs.keys
                 THEN Fetched(s)[i] ELSE Fetched(s)[i].source

C8_Witness ==
    /\ scan["a"].pc = "returned"
    /\ "keep_source" \in scan["a"].kwargs.keys
    /\ Len(scan["a"].all_results) = 3
    /\ scan["a"].all_results[3].sort = <<3>>

---------------------------------------------------------------------------
(* C9: every search request carries the caller's query clause when the     *)
(* payload had one and match-all otherwise, and the caller's sort clause   *)
(* when the payload had one and descending _doc order otherwise.           *)
C9_DefaultsOnlyWhenAbsent ==
    \A s \in Scanners :
        \A i \in 1..Len(scan[s].calls) :
            scan[s].calls[i].op = "search" =>
                /\ {"query", "sort"} \subseteq scan[s].calls[i].data.keys
                /\ scan[s].calls[i].data.query =
                     IF "query" \in scan[s].start.keys
                     THEN scan[s].start.query ELSE "match_all"
                /\ scan[s].calls[i].data.sort =
                     IF "sort" \in scan[s].start.keys
                     THEN scan[s].start.sort ELSE "_doc_desc"

C9_Witness ==
    /\ scan["a"].start.keys = {"sort"}
    /\ Len(CallsOf("a", "search")) = 2
    /\ Last(scan["a"].calls).data.sort = "published_asc"
    /\ Last(scan["a"].calls).data.query = "match_all"

---------------------------------------------------------------------------
(* C10: the store calls of one invocation are strictly ordered: the open   *)
(* call is the first call and has returned its handle before any search,   *)
(* every search is issued after the pages of all earlier searches have     *)
(* been received and accumulated, and the close call is the last call,     *)
(* issued after a search.                                                  *)
C10_CallsStrictlyOrdered ==
    \A s \in Scanners :
        LET c == scan[s].calls
        IN  \A i \in 1..Len(c) :
              /\ (c[i].op = "pit_open") <=> (i = 1)
              /\ c[i].op = "search" =>
                   /\ c[1].outcome = "response" /\ c[1].pit # 0
                   /\ c[i].done = Len(Concat(SubSeq(c, 1, i - 1)))
                   /\ i > 2 => (c[i - 1].op = "search" /\ c[i - 1].outcome = "response")
              /\ c[i].op = "pit_close" =>
                   /\ i = Len(c)
                   /\ i > 2 /\ c[i - 1].op = "search"

C10_Witness ==
    /\ scan["a"].pc = "returned"
    /\ Len(CallsOf("a", "search")) = 4
    /\ Last(scan["a"].calls).op = "pit_close"

---------------------------------------------------------------------------
(* C11: every search call after the first of an invocation carries as      *)
(* search_after the sort values of the last hit of the page the search     *)
(* call before it returned (that one tuple, nothing appended to it); the   *)
(* empty page that ends the loop leaves the cursor of the payload as the   *)
(* last search request carried it.                                         *)
C11_CursorIsLastHitOfPreviousPage ==
    \A s \in Scanners :
        LET c == scan[s].calls
        IN  /\ \A i \in 3..Len(c) :
                 c[i].op = "search" =>
                     /\ c[i - 1].op = "search" /\ c[i - 1].hits # <<>>
                     /\ "search_after" \in c[i].data.keys
                     /\ c[i].data.search_after = Last(c[i - 1].hits).sort
            /\ (scan[s].pc \in {"clean_pit", "returned"} /\ Len(c) >= 2) =>
                 LET last == IF scan[s].pc = "returned" THEN c[Len(c) - 1] ELSE c[Len(c)]
                 IN  /\ last.op = "search" /\ last.hits = <<>>
                     /\ ("search_after" \in Data(s).keys) <=>
                            ("search_after" \in last.data.keys)
                     /\ Data(s).search_after = last.data.search_after

C11_Witness ==
    /\ scan["a"].pc = "returned" /\ Fresh("a")
    /\ index = 3 /\ PageOf("a") = 2
    /\ Data("a").search_after = <<1>>
    /\ scan["a"].calls[3].data.search_after = <<2>>

---------------------------------------------------------------------------
(* C13: no operation changes the URL of an ElasticWrap instance: after any *)
(* sequence of get, post, put and delete it is still store-root/path, and  *)
(* every request of the instance targets that URL.                         *)
C13_UrlNeverChanges ==
    ew.made =>
        /\ ew.url.refreshes = 0
        /\ ew.ops > 0 => ew.request.url = [ew.url EXCEPT !.refreshes = 0]

---------------------------------------------------------------------------
(* C14: every search request of an invocation carries the pit descriptor   *)
(* {id: the handle the open call of the invocation returned, keep_alive:   *)
(* 10m} and as size the size kwarg when it is truthy and 500 when it is    *)
(* absent or 0, the same in all search requests of the invocation.         *)
C14_PitAndSizeInEverySearch ==
    \A s \in Scanners :
        \A i \in 1..Len(scan[s].calls) :
            scan[s].calls[i].op = "search" =>
                /\ {"pit", "size"} \subseteq scan[s].calls[i].data.keys
                /\ scan[s].calls[i].data.pit =
                       [id |-> scan[s].calls[1].pit, keep_alive |-> "10m"]
                /\ scan[s].calls[1].pit = scan[s].pit_id
                /\ scan[s].calls[1].pit # 0
                /\ scan[s].calls[i].data.size = PageOf(s)

C14_Witness ==
    /\ "size" \in scan["a"].kwargs.keys /\ scan["a"].kwargs.size = 0
    /\ scan["a"].scans = 2
    /\ Len(CallsOf("a", "search")) = 2
    /\ Last(scan["a"].calls).data.size = 500
    /\ Last(scan["a"].calls).data.pit.id = 2

---------------------------------------------------------------------------
(* C15: with a callback configured it has been invoked once for every      *)
(* non-empty page received, except the page still being appended, in page  *)
(* order, with the raw hits of the page and the index name, and after the  *)
(* hits of that page were accumulated; it is not invoked for an empty      *)
(* page; with no callback configured it is never invoked.                  *)
C15_CallbackOncePerPage ==
    \A s \in Scanners :
        LET pages == SelectSeq(CallsOf(s, "search"), LAMBDA c : c.hits # <<>>)
            pending == IF scan[s].pc \in {"append", "callback"} THEN 1 ELSE 0
            cb == scan[s].callbacks
        IN  IF "callback" \in scan[s].kwargs.keys
            THEN /\ Len(cb) = Len(pages) - pending
                 /\ \A k \in 1..Len(cb) :
                      /\ cb[k].args.hits = pages[k].hits
                      /\ cb[k].args.index_name = scan[s].index_name
                      /\ cb[k].done = Len(Concat(SubSeq(pages, 1, k)))
                 /\ scan[s].pc = "search" => Len(cb) = Len(pages)
            ELSE cb = <<>>

C15_Witness ==
    /\ scan["a"].pc = "returned"
    /\ {"callback"} = scan["a"].kwargs.keys \ {"size"}
    /\ Len(scan["a"].callbacks) = 2
    /\ Len(scan["a"].callbacks[1].args.hits) = 2
    /\ scan["a"].callbacks[2].args.hits = <<Hit(1)>>
    /\ scan["a"].all_results[1] = [doc |-> 3]

---------------------------------------------------------------------------
(* C16: with a task and a total that is not 0, one notification has been   *)
(* sent for every non-empty page that got through the loop body, carrying  *)
(* the number of hits accumulated so far and progress = that number /      *)
(* total; when total is the number of documents the scan matches, the      *)
(* progress values increase strictly, lie in [0,1], and the last one of a  *)
(* scan that returns is 1. With no task no notification is sent.           *)
MatchCount(s) ==
    IF Fresh(s) THEN index
    ELSE Cardinality({d \in 1..index : IsAfter(SortOf(s), d, scan[s].start.search_after)})

C16_ProgressPerPage ==
    \A s \in Scanners :
        LET pages == SelectSeq(CallsOf(s, "search"), LAMBDA c : c.hits # <<>>)
            pending == IF \/ scan[s].pc \in {"append", "callback", "notify"}
                          \/ /\ scan[s].pc = "raised"
                             /\ scan[s].exc \in {"CallbackError", "TypeError",
                                                 "ZeroDivisionError"}
                       THEN 1 ELSE 0
            n == scan[s].notes
            total == scan[s].kwargs.total
        IN  IF "task" \in scan[s].kwargs.keys /\ total # 0
            THEN /\ Len(n) = Len(pages) - pending
                 /\ \A k \in 1..Len(n) :
                      /\ n[k].message.processed = Len(Concat(SubSeq(pages, 1, k)))
                      /\ n[k].progress = [num |-> Len(Concat(SubSeq(pages, 1, k))),
                                          den |-> total]
                 /\ total = MatchCount(s) =>
                      /\ \A k \in 1..Len(n) :
                           /\ 0 <= n[k].progress.num
                           /\ n[k].progress.num <= n[k].progress.den
                           /\ k > 1 => n[k - 1].progress.num * n[k].progress.den
                                         < n[k].progress.num * n[k - 1].progress.den
                      /\ scan[s].pc = "returned" =>
                           /\ n # <<>>
                           /\ Last(n).progress.num = Last(n).progress.den
            ELSE n = <<>>

C16_Witness ==
    /\ scan["a"].pc = "returned" /\ index = 3
    /\ "task" \in scan["a"].kwargs.keys /\ scan["a"].kwargs.total = 3
    /\ Len(scan["a"].notes) = 2
    /\ scan["a"].notes[1].progress = [num |-> 2, den |-> 3]
    /\ scan["a"].notes[2].progress = [num |-> 3, den |-> 3]

---------------------------------------------------------------------------
(* C17: a get_results call that has started ends, and its loop ends at the *)
(* first empty page and only there: every search but the last returned a   *)
(* non-empty page, the loop is left (close call, return) only after a      *)
(* search that returned an empty page, and after an empty page no loop     *)
(* statement runs again.                                                   *)
InLoop(s) == scan[s].pc \in {"search", "append", "callback", "notify", "advance"}

EndsAtFirstEmptyPage(s) ==
    LET searches == CallsOf(s, "search")
        answered == searches # <<>> /\ Last(searches).outcome = "response"
    IN  /\ \A k \in 1..(Len(searches) - 1) :
             /\ searches[k].outcome = "response"
             /\ searches[k].hits # <<>>
        /\ scan[s].pc \in {"clean_pit", "returned"} =>
             answered /\ Last(searches).hits = <<>>
        /\ answered /\ Last(searches).hits = <<>> /\ scan[s].exc # "KeyError" =>
             ~InLoop(s)
        /\ Len(searches) <= index + 1

C17_LoopEndsAtFirstEmptyPage ==
    /\ [](\A s \in Scanners : EndsAtFirstEmptyPage(s))
    /\ \A s \in Scanners : Running(s) ~> Ended(s)

C17_Witness ==
    /\ scan["a"].pc = "returned" /\ index = 3 /\ PageOf("a") = 2 /\ Fresh("a")
    /\ Len(CallsOf("a", "search")) = 3
    /\ Len(CallsOf("a", "search")[2].hits) = 1
    /\ CallsOf("a", "search")[3].hits = <<>>

---------------------------------------------------------------------------
(* C12: the handle a scanner opened, and what keeps it to that scanner     *)

\* the handle the open call of scanner s returned
OwnHandle(s) == scan[s].calls[1].pit

\* scanner s has used no handle but its own, and has returned what it
\* returns when run alone
KeepsToOwnHandle(s) ==
    /\ \A t \in Scanners \ {s} : Opened(s) /\ Opened(t) => OwnHandle(s) # OwnHandle(t)
    /\ \A k \in 1..Len(scan[s].calls) :
         LET c == scan[s].calls[k]
         IN  /\ c.op = "search" =>
                 Opened(s) /\ c.pit = OwnHandle(s) /\ c.data.pit.id = OwnHandle(s)
             /\ c.op = "pit_close" => Opened(s) /\ c.pit = OwnHandle(s)
    /\ scan[s].pc = "returned" => HoldsWholeIndex(s)

\* the two scanners were given the same payload mapping
SamePayload == SlotOf("a") = SlotOf("b")

(* C12 as stated: however the store calls of two scans interleave, each    *)
(* scan opens its own handle, sends it and no other in every search and in *)
(* the close call, and returns what it returns when run alone.             *)
C12_InterleavedScansIndependent ==
    \A s \in Scanners : KeepsToOwnHandle(s)

(* C12, for scanners that were not given the same payload mapping: each    *)
(* scan opens its own handle, sends it and no other in every search and in *)
(* the close call, and returns what it returns when run alone.             *)
C12_DistinctPayloadsIndependent ==
    ~SamePayload => \A s \in Scanners : KeepsToOwnHandle(s)

C12_Witness ==
    /\ ~SamePayload /\ index = 3
    /\ scan["a"].pc = "search" /\ Len(CallsOf("a", "search")) = 1
    /\ scan["b"].pc = "clean_pit" /\ Len(CallsOf("b", "search")) = 2
    /\ OwnHandle("a") = 2 /\ OwnHandle("b") = 1

---------------------------------------------------------------------------
(* C18: what a scan leaves in the payload and what the next scan does with *)
(* it                                                                      *)

\* the non-empty pages of the invocation of scanner s
Pages(s) == SelectSeq(CallsOf(s, "search"), LAMBDA c : c.hits # <<>>)

\* no scan has opened a handle since scanner s did
LatestScan(s) == Opened(s) /\ OwnHandle(s) = issued

\* mapping m holds what the invocation of scanner s injected: the page
\* size, the handle, and the cursor of its last non-empty page
HoldsLeftovers(m, s) ==
    /\ "size" \in m.keys /\ m.size = PageOf(s)
    /\ "pit" \in m.keys /\ m.pit.id = OwnHandle(s)
    /\ Pages(s) # <<>> =>
         /\ "search_after" \in m.keys
         /\ m.search_after = Last(Last(Pages(s)).hits).sort

\* scanner s has sent its first search and has not moved the cursor since
FirstSearchDone(s) ==
    /\ Len(CallsOf(s, "search")) = 1
    /\ CallsOf(s, "search")[1].outcome = "response"
    /\ scan[s].pc \in {"append", "callback", "notify", "advance", "clean_pit"}

\* the first search of scanner s went out under a handle of its own with
\* the given cursor, and brought nothing from before it
Resumed(s, cursor) ==
    LET c == CallsOf(s, "search")[1]
    IN  /\ Opened(s) /\ c.pit = OwnHandle(s)
        /\ OwnHandle(s) # scan[s].start.pit.id
        /\ "search_after" \in c.data.keys
        /\ c.data.search_after = cursor
        /\ \A i \in 1..Len(c.hits) : IsAfter(SortOf(s), c.hits[i].id, cursor)

\* a further get_results on the same scanner resumes at the cursor left over
SameScannerResumes(s) ==
    FirstSearchDone(s) /\ "search_after" \in scan[s].start.keys
        => Resumed(s, scan[s].start.search_after)

\* the invocation of scanner t that returned is the last before that of s
Follows(s, t) ==
    /\ s # t
    /\ FirstSearchDone(s) /\ Opened(s)
    /\ scan[t].pc = "returned" /\ Opened(t) /\ Pages(t) # <<>>
    /\ OwnHandle(t) = OwnHandle(s) - 1

(* C18 as stated: after get_results returns, the mapping the caller passed *)
(* holds the injected size, the pit and the search_after of the last       *)
(* non-empty page, and the next get_results, on the same scanner or on a   *)
(* new scanner given that mapping, opens a new handle and sends its first  *)
(* search with the leftover search_after.                                  *)
C18_CallerMappingKeepsCursor ==
    \A s \in Scanners :
        /\ scan[s].pc = "returned" /\ LatestScan(s) => HoldsLeftovers(heap["caller"], s)
        /\ SameScannerResumes(s)
        /\ \A t \in Scanners :
             Follows(s, t) => Resumed(s, Last(Last(Pages(t)).hits).sort)

(* C18, for a mapping of the caller that is not empty: after get_results   *)
(* returns the mapping holds the injected size, the pit and the            *)
(* search_after of the last non-empty page, and the next get_results, on   *)
(* the same scanner or on a new scanner given that mapping, opens a new    *)
(* handle and sends its first search with the leftover search_after. A     *)
(* further get_results on the same scanner does so for an empty mapping    *)
(* too.                                                                    *)
C18_NonEmptyMappingKeepsCursor ==
    \A s \in Scanners :
        /\ scan[s].pc = "returned" /\ LatestScan(s) /\ scan[s].data = "caller"
             => HoldsLeftovers(heap["caller"], s)
        /\ SameScannerResumes(s)
        /\ \A t \in Scanners :
             Follows(s, t) /\ scan[s].data = "caller" /\ scan[t].data = "caller"
                 => Resumed(s, Last(Last(Pages(t)).hits).sort)

C18_Witness ==
    /\ Follows("b", "a") /\ index = 3
    /\ scan["a"].data = "caller" /\ scan["b"].data = "caller"
    /\ scan["a"].scans = 1 /\ Len(Pages("a")) = 2
    /\ CallsOf("b", "search")[1].data.search_after = <<1>>
    /\ heap["caller"].pit.id = OwnHandle("b")

---------------------------------------------------------------------------
(* C19: in every state of the user-settings migration, the state after a   *)
(* failed write included, a setting that was truthy in Redis at the start  *)
(* is still in Redis or is in the document store, a Redis key is gone only *)
(* when its value is in the document store, and when the command has       *)
(* failed the keys it had not reached are in Redis as they were.           *)

\* the migration has not reached setting k of user u
NotReached(u, k) == u \in mig.todo \/ (u = mig.user /\ k >= mig.key)

C19_DeletedOnlyAfterWritten ==
    \A u \in Users, k \in DOMAIN Settings :
        /\ mig.initial[u][k] = "truthy" =>
             \/ mig.redis[u][k] = "truthy"
             \/ <<u, Settings[k].name>> \in mig.es
        /\ mig.redis[u][k] # mig.initial[u][k] =>
             <<u, Settings[k].name>> \in mig.es
        /\ mig.pc = "failed" /\ NotReached(u, k) =>
             mig.redis[u][k] = mig.initial[u][k]

C19_Witness ==
    /\ mig.pc = "failed" /\ mig.at = "set_value"
    /\ mig.user = "2" /\ mig.key = 9 /\ mig.todo = {}
    /\ mig.initial["1"][1] = "truthy" /\ mig.redis["1"][1] = "absent"
    /\ mig.es = {<<"1", "stylesheet">>}
    /\ mig.redis["2"][9] = "truthy"

---------------------------------------------------------------------------
(* C20: the scheduler entry leaves the stored configuration only after the *)
(* task of every truthy schedule and the version_check task exist; when a  *)
(* task creation raises the entry is still stored; and after a completed   *)
(* migration a further run creates no task and changes nothing.            *)
C20_SchedulerRemovedLast ==
    /\ sched.config # sched.initial =>
         /\ sched.migrated /\ ~sched.config.present
         /\ \A i \in DOMAIN ConfiguredTasks :
              ConfiguredTasks[i] \in sched.initial.truthy =>
                  \E t \in sched.tasks :
                      /\ t.name = ConfiguredTasks[i]
                      /\ t.config = TaskConfig(ConfiguredTasks[i], sched.initial)
         /\ \E t \in sched.tasks : t.name = "version_check"
    /\ sched.pc = "failed" => sched.config.present /\ sched.config = sched.initial
    /\ sched.migrated =>
         /\ sched.pc \in {"done", "nothing"}
         /\ sched.tasks = sched.after
         /\ ~sched.config.present
         /\ sched.pc = "nothing" => sched.created = 0

C20_Witness ==
    /\ sched.migrated /\ sched.pc = "nothing" /\ sched.runs = 2
    /\ sched.initial.truthy = {"check_reindex", "check_reindex_days"}
    /\ Cardinality(sched.tasks) = 2
    /\ \E t \in sched.tasks : t.name = "check_reindex" /\ t.config = {"days"}

=============================================================================
